---- MODULE Spec2Model ----
(***************************************************************************)
(* Model of the EduSense backend (src/Backend/server.js).                  *)
(*                                                                         *)
(* server.js holds two complete copies of the server: lines 1-341 (an      *)
(* earlier version that analyses the uploaded file directly) and, from the *)
(* line "//Backend/server.js" (342) to the end, the version that splits    *)
(* the upload per instructor.  The model is of the second copy, lines      *)
(* 342-989.  That copy registers POST /api/upload twice (line 501 and line *)
(* 751); Express runs the handlers of a route in registration order and    *)
(* the one of line 501 always answers, so the one of line 751 is never     *)
(* entered.                                                                *)
(*                                                                         *)
(* Strings that the code takes apart (file names) are sequences of         *)
(* one-character strings; texts that the code only passes on are TLA+      *)
(* strings.                                                                *)
(***************************************************************************)
EXTENDS Integers, Sequences, FiniteSets, TLC

\* ------------------------------------------------------------------------
\* Bounds
\* ------------------------------------------------------------------------

\* number of HTTP requests the server handles at the same time; a request
\* that has been answered makes room for the next one
MaxReq == 1

\* number of uploads that overlap in the race of two uploads
MaxUploads == 2

\* ------------------------------------------------------------------------
\* Strings
\* ------------------------------------------------------------------------

\* the fixed suffix '_feedback.csv' of the per-instructor files
Suffix == <<"_", "f", "e", "e", "d", "b", "a", "c", "k", ".", "c", "s", "v">>

\* UTF-16 code unit of a character (the order String.prototype.sort uses)
Code(c) ==
  CASE c = " " -> 32
    [] c = "." -> 46
    [] c = "A" -> 65
    [] c = "_" -> 95
    [] c = "a" -> 97
    [] c = "b" -> 98
    [] c = "c" -> 99
    [] c = "d" -> 100
    [] c = "e" -> 101
    [] c = "f" -> 102
    [] c = "k" -> 107
    [] c = "s" -> 115
    [] c = "v" -> 118

\* does pat occur in s at position i (1-based)
OccursAt(s, pat, i) ==
  /\ i >= 1
  /\ i + Len(pat) - 1 <= Len(s)
  /\ SubSeq(s, i, i + Len(pat) - 1) = pat

\* String.prototype.endsWith
EndsWith(s, pat) ==
  /\ Len(s) >= Len(pat)
  /\ OccursAt(s, pat, Len(s) - Len(pat) + 1)

\* String.prototype.indexOf, 1-based; 0 when pat does not occur
IndexOf(s, pat) ==
  IF \E i \in 1..Len(s) : OccursAt(s, pat, i)
    THEN CHOOSE i \in 1..Len(s) :
           /\ OccursAt(s, pat, i)
           /\ \A j \in 1..(i - 1) : ~OccursAt(s, pat, j)
    ELSE 0

\* String.prototype.replace with a string pattern: the FIRST occurrence only
ReplaceFirst(s, pat, rep) ==
  LET i == IndexOf(s, pat)
  IN  IF i = 0 THEN s
      ELSE SubSeq(s, 1, i - 1) \o rep \o SubSeq(s, i + Len(pat), Len(s))

\* String.prototype.replace with a global one-character regexp (/_/g)
ReplaceAllChar(s, c, d) ==
  [i \in 1..Len(s) |-> IF s[i] = c THEN d ELSE s[i]]

\* s < t in the order of the default Array.prototype.sort (code units)
RECURSIVE LexLess(_, _)
LexLess(s, t) ==
  IF Len(t) = 0 THEN FALSE
  ELSE IF Len(s) = 0 THEN TRUE
  ELSE IF Code(Head(s)) < Code(Head(t)) THEN TRUE
  ELSE IF Code(Head(s)) > Code(Head(t)) THEN FALSE
  ELSE LexLess(Tail(s), Tail(t))

\* insert x into the sorted sequence q
RECURSIVE InsertSorted(_, _)
InsertSorted(x, q) ==
  IF Len(q) = 0 THEN <<x>>
  ELSE IF LexLess(x, Head(q)) THEN <<x>> \o q
  ELSE <<Head(q)>> \o InsertSorted(x, Tail(q))

\* Array.prototype.sort() without a comparator, on an array of strings
RECURSIVE SortStrings(_)
SortStrings(q) ==
  IF Len(q) = 0 THEN <<>>
  ELSE InsertSorted(Head(q), SortStrings(Tail(q)))

Range(q) == {q[i] : i \in 1..Len(q)}

\* all orders in which a directory listing can return the set S of names
Orderings(S) ==
  {q \in [1..Cardinality(S) -> S] : \A i, j \in 1..Cardinality(S) : q[i] = q[j] => i = j}

\* ------------------------------------------------------------------------
\* Instructor files
\* ------------------------------------------------------------------------

\* instructor names that occur in uploaded CSVs: '_feedback.csv a' and
\* '_feedback.csv_a' differ only in a space, '_a_feedback.csv' is a third
\* one whose file name holds the suffix twice as well
NameSpace == Suffix \o <<" ", "a">>
NameUnder == Suffix \o <<"_", "a">>
NameTwice == <<"_", "a">> \o Suffix
InstructorNames == {NameSpace, NameUnder, NameTwice}

\* the id of an instructor: the name with spaces replaced by underscores
NormalizeId(name) == ReplaceAllChar(name, " ", "_")

\* the file the splitter writes for an instructor
SplitFileName(name) == NormalizeId(name) \o Suffix

\* what extract_instructor_data.py writes into instructor_data for a CSV:
\* one file per distinct instructor, none without an Instructor column
SplitterFiles(csv) ==
  IF csv.column THEN {SplitFileName(n) : n \in csv.instructors} ELSE {}

\* f => f.endsWith('_feedback.csv')
IsFeedbackFile(f) == EndsWith(f, Suffix)

\* one entry of the instructor list, as both upload handlers derive it
InstructorEntry(file) ==
  [id |-> ReplaceFirst(file, Suffix, <<>>),
   name |-> ReplaceAllChar(ReplaceFirst(file, Suffix, <<>>), "_", " "),
   filename |-> file]

\* files.map(...) of the handler registered at line 501
InstructorsSplit(files) == [i \in 1..Len(files) |-> InstructorEntry(files[i])]

\* instructorMap of the handler registered at line 751: Map keeps insertion
\* order, and a key already present is not overwritten
RECURSIVE InstructorsDedupe(_)
InstructorsDedupe(files) ==
  IF Len(files) = 0 THEN <<>>
  ELSE LET front == InstructorsDedupe(SubSeq(files, 1, Len(files) - 1))
           e == InstructorEntry(files[Len(files)])
       IN  IF \E i \in 1..Len(front) : front[i].id = e.id
             THEN front
             ELSE Append(front, e)

\* ------------------------------------------------------------------------
\* Texts, process output and JSON
\* ------------------------------------------------------------------------

\* a text the code only passes on or concatenates: the sequence of its
\* pieces; the empty string is the empty sequence
Text(t) == IF t = "" THEN <<>> ELSE <<t>>

\* JavaScript truthiness of a string
Truthy(t) == t /= <<>>

\* a || b on strings
OrElse(a, b) == IF Truthy(a) THEN a ELSE b

\* the value null / undefined
Null == "null"

\* what the analysis script can print on stdout
OutGarbage == Text("Traceback (most recent call last)")
OutJsonNull == Text("null")
OutJsonError == Text("{\"error\": \"CSV has no feedback column\"}")
OutJsonEmptyError == Text("{\"error\": \"\"}")
OutJsonResult == Text("{\"summary\": {\"total_responses\": 1}, \"individual_analysis\": []}")
AnalyzerStdout == {<<>>, OutGarbage, OutJsonNull, OutJsonError, OutJsonEmptyError, OutJsonResult}

\* what a script can print on stderr
ErrTraceback == Text("ValueError: bad row")
ErrModule == Text("ModuleNotFoundError: No module named 'pandas'")
ScriptStderr == {<<>>, ErrTraceback, ErrModule}

\* err.stderr.includes('ModuleNotFoundError')
IncludesModuleNotFound(t) == t = ErrModule

\* JSON.parse on the texts above: ok = FALSE when it throws SyntaxError
JSONparse(t) ==
  CASE t = OutJsonNull -> [ok |-> TRUE, type |-> "null", obj |-> [none |-> TRUE]]
    [] t = OutJsonError ->
         [ok |-> TRUE, type |-> "object", obj |-> [error |-> Text("CSV has no feedback column")]]
    [] t = OutJsonEmptyError ->
         [ok |-> TRUE, type |-> "object", obj |-> [error |-> Text("")]]
    [] t = OutJsonResult ->
         [ok |-> TRUE, type |-> "object",
          obj |-> [summary |-> [total_responses |-> 1], individual_analysis |-> <<>>]]
    [] OTHER -> [ok |-> FALSE, type |-> "none", obj |-> [none |-> TRUE]]

\* ------------------------------------------------------------------------
\* Environment of the server
\* ------------------------------------------------------------------------

\* server.js holds two copies of the server, lines 1-341 and 342-989: the
\* server of this model is the second, and the page is served by either
FirstCopy == "first"
SecondCopy == "second"

\* const commands of findPythonCommand, per process.platform
CommandsFor(platform) ==
  IF platform = "win32" THEN <<"python", "py", "python3">> ELSE <<"python3", "python">>

Platforms == {"win32", "linux"}

\* how a command answers '--version': exits 0, exits non-zero, or cannot be
\* started (ENOENT)
ProbeAnswers == {"ok", "fail", "missing"}

ExtractScript == "extract_instructor_data.py"
AnalyzeScript == "analyze.py"

\* ------------------------------------------------------------------------
\* Messages of the responses
\* ------------------------------------------------------------------------

MsgNoFile == Text("No file uploaded")
MsgNoPython == Text("Python is not installed or not found in PATH.")
MsgNoExtract == Text("extract_instructor_data.py not found in server directory.")
MsgNoInstructor == Text("No instructor data found. Make sure CSV has \"Instructor\" column.")
MsgSplitFailed == Text("Failed to split CSV by instructor: ")
MsgUnknown == Text("Unknown error")
MsgOnlyCsv == Text("Only CSV files are allowed!")
MsgTooLarge == Text("File size too large. Maximum size is 10MB.")
MsgInternal == Text("Internal server error")
MsgNoFilename == Text("Filename is required")
MsgNotFound == Text("Instructor file not found")
MsgNoAnalyze == Text("analyze.py not found in server directory.")
MsgAnalysisFailed == Text("Analysis failed")
MsgDeps == Text("Python dependencies missing. Run: pip install transformers torch pandas")
\* error.message of the 'error' event of a command that cannot be started
MsgEnoent(cmd) == Text("spawn ") \o Text(cmd) \o Text(" ENOENT")

\* ------------------------------------------------------------------------
\* Requests
\* ------------------------------------------------------------------------

\* an uploaded CSV: whether it has an Instructor column and the values in it
MaxInstructors == 2

NoCsv == [column |-> FALSE, instructors |-> {}]

CsvInputs ==
  {NoCsv} \cup
  {[column |-> TRUE, instructors |-> S] :
     S \in {T \in SUBSET InstructorNames : Cardinality(T) \in 1..MaxInstructors}}

\* the multipart body of POST /api/upload: no file part, or a file with its
\* MIME type, extension, size and contents
UploadInputs ==
  {[present |-> FALSE, mimeCsv |-> FALSE, extCsv |-> FALSE, oversized |-> FALSE, csv |-> NoCsv]}
  \cup
  {[present |-> TRUE, mimeCsv |-> m, extCsv |-> e, oversized |-> TRUE, csv |-> NoCsv] :
     m \in BOOLEAN, e \in BOOLEAN}
  \cup
  {[present |-> TRUE, mimeCsv |-> FALSE, extCsv |-> FALSE, oversized |-> FALSE, csv |-> NoCsv]}
  \cup
  {[present |-> TRUE, mimeCsv |-> m, extCsv |-> ~m, oversized |-> FALSE, csv |-> NoCsv] :
     m \in BOOLEAN}
  \cup
  {[present |-> TRUE, mimeCsv |-> TRUE, extCsv |-> TRUE, oversized |-> FALSE, csv |-> c] :
     c \in CsvInputs}

\* a file name no splitter run of the model writes
GhostFile == <<"A">> \o Suffix

\* the JSON body of POST /api/analyze-instructor: filename absent, empty, or
\* a name
AnalyzeInputs ==
  {[given |-> FALSE, filename |-> <<>>], [given |-> TRUE, filename |-> <<>>]}
  \cup {[given |-> TRUE, filename |-> f] : f \in {SplitFileName(NameSpace), GhostFile}}

NoExit == [code |-> 0, stdout |-> <<>>, stderr |-> <<>>]

NoSettle == [state |-> "pending", code |-> 0, stdout |-> <<>>, stderr |-> <<>>, error |-> <<>>]

\* pc of a request: "free" (no request in the slot), "awaiting" (the handler
\* waits for its process), "done" (answered)
\* proc of a request: "none", "running", "exited" (ended, 'close' not yet
\* delivered), "errored" ('error' delivered), "closed" ('close' delivered)

\* a request as it enters its handler
NewReq(route, input) ==
  [route |-> route, input |-> input, pc |-> "received", proc |-> "none",
   exit |-> NoExit, promise |-> NoSettle, spawned |-> 0, responses |-> <<>>]

\* a slot without a request
FreeReq ==
  [route |-> "none", input |-> [none |-> TRUE], pc |-> "free", proc |-> "none",
   exit |-> NoExit, promise |-> NoSettle, spawned |-> 0, responses |-> <<>>]

\* res.status(status).json(body)
Respond(rec, status, body) ==
  [rec EXCEPT !.responses = Append(@, [status |-> status, body |-> body]), !.pc = "done"]

\* a handler that answers as soon as its process is started
SpawnAndAnswer(rec) ==
  [rec EXCEPT !.proc = "running", !.spawned = @ + 1, !.pc = "done",
              !.responses = Append(@, [status |-> 200, body |-> [success |-> TRUE]])]

\* spawn(PYTHON_CMD, [scriptPath, ...args]) inside runPythonScript
Spawn(rec) ==
  [rec EXCEPT !.proc = "running", !.spawned = @ + 1, !.pc = "awaiting"]

\* ------------------------------------------------------------------------
\* The client page (src/my-next-app/src/app/page.js): values of its state
\* ------------------------------------------------------------------------

\* JavaScript values held by the page: null, undefined, or an object
JsNull == [kind |-> "null", obj |-> <<>>]
JsUndefined == [kind |-> "undefined", obj |-> <<>>]
JsObject(o) == [kind |-> "object", obj |-> o]

\* truthiness of such a value
JsTruthy(v) == v.kind = "object"

\* body.f of a parsed response body: undefined when the field is absent
JsField(body, f) == IF f \in DOMAIN body THEN JsObject(body[f]) ELSE JsUndefined

\* useState('') ... of LoginPage when it is mounted
LoginPageStart == [username |-> "", password |-> "", loading |-> FALSE, error |-> <<>>]

\* useState(null) ... of UploadPage when it is mounted
UploadPageStart == [file |-> "null", uploading |-> FALSE, error |-> <<>>]

\* the page as loaded: the useState initial values of App, LoginPage
\* mounted, no fetch under way
ClientStart ==
  [currentPage |-> "login", isDark |-> FALSE, user |-> JsNull, analysisData |-> JsNull,
   loginPage |-> LoginPageStart, uploadPage |-> UploadPageStart, fetches |-> <<>>]

\* ------------------------------------------------------------------------
\* State
\* ------------------------------------------------------------------------

VARIABLES
  deployed,       \* the copy of server.js that is the running server
  platform,       \* process.platform
  answers,        \* how each candidate command answers the version probe
  scripts,        \* the script files present in the server directory
  PYTHON_CMD,     \* let PYTHON_CMD
  index,          \* let index of findPythonCommand
  probes,         \* the probe processes spawned by tryCommand, oldest first
  pyPromise,      \* the promise of findPythonCommand: "pending" or "resolved"
  uploadsDir,     \* scratch files in uploads/, named by their request
  instructorData, \* names of the files in instructor_data/
  reqs,           \* the requests being handled, and the last answered ones
  client          \* the state of the client page and its fetches under way

vars == <<deployed, platform, answers, scripts, PYTHON_CMD, index, probes, pyPromise,
          uploadsDir, instructorData, reqs, client>>

envVars == <<deployed, platform, answers, scripts>>
pyVars == <<PYTHON_CMD, index, probes, pyPromise>>

commands == CommandsFor(platform)

\* the slots a new request can take: free, or answered with no process left
\* that can still exit
CanTake(r) ==
  /\ reqs[r].pc \in {"free", "done"}
  /\ reqs[r].proc \in {"none", "errored", "closed"}

\* the slot of the next request
NextSlot == CHOOSE r \in DOMAIN reqs : CanTake(r) /\ \A q \in 1..(r - 1) : ~CanTake(q)

\* the server process runs: no 'error' event was emitted without a listener
\* (pc "crashed" marks the request whose process emitted it)
ServerUp == \A r \in DOMAIN reqs : reqs[r].pc /= "crashed"

\* ------------------------------------------------------------------------
\* Startup: findPythonCommand and the initialisation of PYTHON_CMD
\* ------------------------------------------------------------------------

\* positions in probes: tryCommand spawns at most one probe per candidate
ProbeIds == DOMAIN CommandsFor("win32")

\* resolve(v) of the promise of findPythonCommand, and the assignment
\* PYTHON_CMD = await findPythonCommand(); a promise settles once
ResolvePython(v) ==
  IF pyPromise = "pending"
    THEN pyPromise' = "resolved" /\ PYTHON_CMD' = v
    ELSE UNCHANGED <<pyPromise, PYTHON_CMD>>

\* tryCommand(), entered with index = idx and the probes prbs
TryCommand(idx, prbs) ==
  /\ index' = idx
  /\ IF idx >= Len(commands)
       THEN ResolvePython(Null) /\ probes' = prbs
       ELSE /\ probes' = Append(prbs, [cmd |-> commands[idx + 1], phase |-> "running"])
            /\ UNCHANGED <<pyPromise, PYTHON_CMD>>

\* test.on('close'): the probe exited (code 0 or not), or could not be
\* started and closes after its 'error' event
ProbeClose(p) ==
  /\ ServerUp
  /\ p \in 1..Len(probes)
  /\ \/ probes[p].phase = "running" /\ answers[probes[p].cmd] /= "missing"
     \/ probes[p].phase = "errored"
  /\ LET prbs == [probes EXCEPT ![p].phase = "closed"]
         code == IF probes[p].phase = "errored" THEN -2
                 ELSE IF answers[probes[p].cmd] = "ok" THEN 0 ELSE 1
     IN  IF code = 0
           THEN ResolvePython(probes[p].cmd) /\ probes' = prbs /\ index' = index
           ELSE TryCommand(index + 1, prbs)
  /\ UNCHANGED <<client, envVars, uploadsDir, instructorData, reqs>>

\* test.on('error'): the probe could not be started
ProbeError(p) ==
  /\ ServerUp
  /\ p \in 1..Len(probes)
  /\ probes[p].phase = "running"
  /\ answers[probes[p].cmd] = "missing"
  /\ TryCommand(index + 1, [probes EXCEPT ![p].phase = "errored"])
  /\ UNCHANGED <<client, envVars, uploadsDir, instructorData, reqs>>

\* the installations the request handling is explored under: every
\* candidate answers the probe, or none can be started
ServerAnswers ==
  {[c \in Range(CommandsFor("linux")) |-> "ok"],
   [c \in Range(CommandsFor("linux")) |-> "missing"]}

\* the state once server.js has been loaded: the first probe is running
Init ==
  /\ deployed = SecondCopy
  /\ platform = "linux"
  /\ answers \in ServerAnswers
  /\ scripts \in SUBSET {ExtractScript, AnalyzeScript}
  /\ PYTHON_CMD = Null
  /\ index = 0
  /\ probes = <<[cmd |-> CommandsFor(platform)[1], phase |-> "running"]>>
  /\ pyPromise = "pending"
  /\ uploadsDir = {}
  /\ instructorData = {}
  /\ reqs = [r \in 1..MaxReq |-> FreeReq]
  /\ client = ClientStart

\* ------------------------------------------------------------------------
\* runPythonScript
\* ------------------------------------------------------------------------

\* a promise whose last resolve / reject wins
SettleLastWins(rec, s) == [rec EXCEPT !.promise = s]

\* resolve / reject of the promise of runPythonScript; a promise settles once
Settle(rec, s) ==
  IF rec.promise.state = "pending" THEN [rec EXCEPT !.promise = s] ELSE rec

\* pythonProcess.on('close', (code) => ...)
OnClose(rec, code, out, err) ==
  IF code /= 0
    THEN Settle(rec, [state |-> "rejectedExit", code |-> code, stdout |-> out,
                      stderr |-> err, error |-> <<>>])
    ELSE Settle(rec, [state |-> "resolved", code |-> 0, stdout |-> out,
                      stderr |-> <<>>, error |-> <<>>])

\* pythonProcess.on('error', (error) => ...)
OnError(rec, message) ==
  Settle(rec, [state |-> "rejectedError", code |-> 0, stdout |-> <<>>,
               stderr |-> <<>>, error |-> message])

\* ------------------------------------------------------------------------
\* POST /api/upload
\* ------------------------------------------------------------------------

\* fileFilter with the check left out: every file is accepted
FileFilterAcceptsAll(mime, ext) == TRUE

\* fileFilter of the multer configuration
FileFilter(mime, ext) == mime \/ ext

\* the error handling middleware
ErrorMiddleware(rec, error) ==
  IF error.multer /\ error.code = "LIMIT_FILE_SIZE"
    THEN Respond(rec, 400, [success |-> FALSE, error |-> MsgTooLarge])
    ELSE Respond(rec, 500, [success |-> FALSE, error |-> OrElse(error.message, MsgInternal)])

\* the handlers registered for POST /api/upload, in registration order
\* (line 501, line 751); Express enters the first, which always answers
UploadRoutes == <<"split", "dedupe">>
ServingUpload == UploadRoutes[1]

\* a listing that stops after the first feedback file
UploadFilesFirstOnly(listing) ==
  LET files == SelectSeq(listing, IsFeedbackFile)
  IN  IF Len(files) = 0 THEN files ELSE <<files[1]>>

\* const files = fs.readdirSync(instructorDataDir).filter(...)[.sort()]
UploadFiles(listing) ==
  IF ServingUpload = "split"
    THEN SelectSeq(listing, IsFeedbackFile)
    ELSE SortStrings(SelectSeq(listing, IsFeedbackFile))

\* the instructors of the success response
UploadInstructors(files) ==
  IF ServingUpload = "split" THEN InstructorsSplit(files) ELSE InstructorsDedupe(files)

\* the upload handler without the fs.existsSync(extractScript) check
UploadEntryNoScriptCheck(r, rec) ==
  IF ~rec.input.present
    THEN /\ reqs' = [reqs EXCEPT ![r] = Respond(rec, 400, [success |-> FALSE, error |-> MsgNoFile])]
         /\ UNCHANGED uploadsDir
  ELSE IF PYTHON_CMD = Null
    THEN /\ uploadsDir' = (uploadsDir \cup {r}) \ {r}
         /\ reqs' = [reqs EXCEPT ![r] = Respond(rec, 500, [success |-> FALSE, error |-> MsgNoPython])]
  ELSE /\ uploadsDir' = uploadsDir \cup {r}
       /\ reqs' = [reqs EXCEPT ![r] = Spawn(rec)]

\* the upload handler up to its await: the checks and the spawn
UploadEntry(r, rec) ==
  IF ~rec.input.present
    THEN /\ reqs' = [reqs EXCEPT ![r] = Respond(rec, 400, [success |-> FALSE, error |-> MsgNoFile])]
         /\ UNCHANGED uploadsDir
  ELSE IF PYTHON_CMD = Null
    THEN /\ uploadsDir' = (uploadsDir \cup {r}) \ {r}
         /\ reqs' = [reqs EXCEPT ![r] = Respond(rec, 500, [success |-> FALSE, error |-> MsgNoPython])]
  ELSE IF ExtractScript \notin scripts
    THEN /\ uploadsDir' = (uploadsDir \cup {r}) \ {r}
         /\ reqs' = [reqs EXCEPT ![r] = Respond(rec, 500, [success |-> FALSE, error |-> MsgNoExtract])]
  ELSE /\ uploadsDir' = uploadsDir \cup {r}
       /\ reqs' = [reqs EXCEPT ![r] = Spawn(rec)]

\* a POST /api/upload arrives: upload.single('file') starts to read the body
\* and to write the scratch file of a file the filter accepts; the handler is
\* entered in a later step
UploadRequest(input) ==
  /\ ServerUp
  /\ \E r \in DOMAIN reqs : CanTake(r)
  /\ reqs' = [reqs EXCEPT ![NextSlot] = NewReq("upload", input)]
  /\ uploadsDir' = IF input.present /\ FileFilter(input.mimeCsv, input.extCsv)
                     THEN uploadsDir \cup {NextSlot}
                     ELSE uploadsDir
  /\ UNCHANGED <<client, envVars, pyVars, instructorData>>

\* upload.single('file') is done with the body of request r: it hands the
\* error of the filter or of the size limit (the partial scratch file
\* removed) to the error middleware, or calls the handler
UploadHandler(r) ==
  /\ ServerUp
  /\ r \in DOMAIN reqs
  /\ reqs[r].route = "upload"
  /\ reqs[r].pc = "received"
  /\ LET rec == reqs[r]
         input == rec.input
     IN  IF input.present /\ ~FileFilter(input.mimeCsv, input.extCsv)
           THEN /\ reqs' = [reqs EXCEPT ![r] = ErrorMiddleware(rec,
                             [multer |-> FALSE, code |-> "", message |-> MsgOnlyCsv])]
                /\ UNCHANGED uploadsDir
         ELSE IF input.present /\ input.oversized
           THEN /\ reqs' = [reqs EXCEPT ![r] = ErrorMiddleware(rec,
                             [multer |-> TRUE, code |-> "LIMIT_FILE_SIZE",
                              message |-> Text("File too large")])]
                /\ uploadsDir' = uploadsDir \ {r}
         ELSE UploadEntry(r, rec)
  /\ UNCHANGED <<client, envVars, pyVars, instructorData>>

\* the body of the success response of the upload handler
UploadSuccessBody(instructors) ==
  [success |-> TRUE, instructors |-> instructors, message |-> [found |-> Len(instructors)]]

\* the try block listing only the files of the CSV of its own request
UploadResolvedOwnFiles(r, rec) ==
  /\ uploadsDir' = uploadsDir \ {r}
  /\ \E listing \in Orderings(SplitterFiles(rec.input.csv)) :
       LET files == UploadFiles(listing)
           instructors == UploadInstructors(files)
       IN  IF Len(files) = 0
             THEN reqs' = [reqs EXCEPT ![r] =
                    Respond(rec, 400, [success |-> FALSE, error |-> MsgNoInstructor])]
             ELSE reqs' = [reqs EXCEPT ![r] =
                    Respond(rec, 200, UploadSuccessBody(instructors))]

\* the try block of the upload handler after its await resolved
UploadResolved(r, rec) ==
  /\ uploadsDir' = uploadsDir \ {r}
  /\ \E listing \in Orderings(instructorData) :
       LET files == UploadFiles(listing)
           instructors == UploadInstructors(files)
       IN  IF Len(files) = 0
             THEN reqs' = [reqs EXCEPT ![r] =
                    Respond(rec, 400, [success |-> FALSE, error |-> MsgNoInstructor])]
             ELSE reqs' = [reqs EXCEPT ![r] =
                    Respond(rec, 200, UploadSuccessBody(instructors))]

\* the body of the response of the catch block of the upload handler
UploadCatchBody(err) ==
  [success |-> FALSE,
   error |-> MsgSplitFailed \o OrElse(err.stderr, OrElse(err.error, MsgUnknown))]

\* the catch block without its fs.unlinkSync(filePath)
UploadCatchKeepsFile(r, rec) ==
  /\ UNCHANGED uploadsDir
  /\ reqs' = [reqs EXCEPT ![r] =
       Respond(rec, 500, UploadCatchBody(rec.promise))]

\* the catch block of the upload handler: the promise was rejected
UploadCatch(r, rec) ==
  /\ uploadsDir' = uploadsDir \ {r}
  /\ reqs' = [reqs EXCEPT ![r] =
       Respond(rec, 500, UploadCatchBody(rec.promise))]

\* the upload handler after its await, rec.promise being settled
UploadAfter(r, rec) ==
  IF rec.promise.state = "resolved" THEN UploadResolved(r, rec) ELSE UploadCatch(r, rec)

\* ------------------------------------------------------------------------
\* POST /api/analyze-instructor
\* ------------------------------------------------------------------------

\* the analyze handler with the analyze.py check before the file check
AnalyzeEntryScriptFirst(rec) ==
  IF ~rec.input.given \/ ~Truthy(rec.input.filename)
    THEN Respond(rec, 400, [success |-> FALSE, error |-> MsgNoFilename])
  ELSE IF PYTHON_CMD = Null
    THEN Respond(rec, 500, [success |-> FALSE, error |-> MsgNoPython])
  ELSE IF AnalyzeScript \notin scripts
    THEN Respond(rec, 500, [success |-> FALSE, error |-> MsgNoAnalyze])
  ELSE IF rec.input.filename \notin instructorData
    THEN Respond(rec, 404, [success |-> FALSE, error |-> MsgNotFound])
  ELSE Spawn(rec)

\* the analyze handler up to its await: the checks and the spawn
AnalyzeEntry(rec) ==
  IF ~rec.input.given \/ ~Truthy(rec.input.filename)
    THEN Respond(rec, 400, [success |-> FALSE, error |-> MsgNoFilename])
  ELSE IF PYTHON_CMD = Null
    THEN Respond(rec, 500, [success |-> FALSE, error |-> MsgNoPython])
  ELSE IF rec.input.filename \notin instructorData
    THEN Respond(rec, 404, [success |-> FALSE, error |-> MsgNotFound])
  ELSE IF AnalyzeScript \notin scripts
    THEN Respond(rec, 500, [success |-> FALSE, error |-> MsgNoAnalyze])
  ELSE Spawn(rec)

\* a POST /api/analyze-instructor arrives
AnalyzeRequest(input) ==
  /\ ServerUp
  /\ \E r \in DOMAIN reqs : CanTake(r)
  /\ reqs' = [reqs EXCEPT ![NextSlot] = AnalyzeEntry(NewReq("analyze", input))]
  /\ UNCHANGED <<client, envVars, pyVars, uploadsDir, instructorData>>

\* the result.error check left out
HasTruthyErrorNever(j) == FALSE

\* does the parsed JSON value have a truthy error property
HasTruthyError(j) ==
  /\ j.type = "object"
  /\ "error" \in DOMAIN j.obj
  /\ Truthy(j.obj.error)

\* errorMessage of the catch block, for the caught value err
AnalyzeErrorMessage(err) ==
  IF Truthy(err.stderr) /\ IncludesModuleNotFound(err.stderr)
    THEN MsgDeps
  ELSE IF Truthy(err.stdout)
    THEN LET j == JSONparse(err.stdout)
         IN  IF j.ok /\ j.type = "object"
               THEN IF HasTruthyError(j) THEN j.obj.error ELSE MsgAnalysisFailed
               ELSE OrElse(err.stdout, OrElse(err.stderr, MsgAnalysisFailed))
  ELSE MsgAnalysisFailed

\* the catch block of the analyze handler
AnalyzeCatch(rec, err) ==
  Respond(rec, 500, [success |-> FALSE, error |-> AnalyzeErrorMessage(err),
                     details |-> [stderr |-> err.stderr, stdout |-> err.stdout]])

AnalyzeSuccessBodyNoEcho(result, filename) ==
  [success |-> TRUE, data |-> result.obj, filename |-> <<>>]

\* the body of the success response: the parsed value and the filename of
\* the request
AnalyzeSuccessBody(result, filename) ==
  [success |-> TRUE, data |-> result.obj, filename |-> filename]

\* the analyze handler after its await, rec.promise being settled
AnalyzeAfter(rec) ==
  IF rec.promise.state = "resolved"
    THEN LET result == JSONparse(rec.promise.stdout)
         IN  IF ~result.ok \/ result.type = "null"
               \* JSON.parse or result.error throws: the caught value has no
               \* stderr and no stdout
               THEN AnalyzeCatch(rec, [stderr |-> <<>>, stdout |-> <<>>])
             ELSE IF HasTruthyError(result)
               THEN Respond(rec, 400, [success |-> FALSE, error |-> result.obj.error])
             ELSE Respond(rec, 200, AnalyzeSuccessBody(result, rec.input.filename))
    ELSE AnalyzeCatch(rec, [stderr |-> rec.promise.stderr, stdout |-> rec.promise.stdout])

\* ------------------------------------------------------------------------
\* GET /api/health
\* ------------------------------------------------------------------------

MsgHealthNoPython == Text("Python is not installed or not in PATH")
VersionNotFound == Text("Not found")

\* what the runtime prints for --version
VersionText == Text("Python 3.11.4")

\* the health handler answering although PYTHON_CMD is null as if a runtime
\* had been found
HealthEntryIgnoresNull(rec) == Spawn(rec)

\* the health handler up to the spawn of the version check (the timestamp
\* of the body depends on the clock only and is left out)
HealthEntry(rec) ==
  IF PYTHON_CMD = Null
    THEN Respond(rec, 200, [status |-> "warning", python_available |-> FALSE,
                            python_version |-> VersionNotFound,
                            message |-> MsgHealthNoPython])
    ELSE Spawn(rec)

\* a GET /api/health arrives
HealthRequest ==
  /\ ServerUp
  /\ \E r \in DOMAIN reqs : CanTake(r)
  /\ reqs' = [reqs EXCEPT ![NextSlot] = HealthEntry(NewReq("health", [none |-> TRUE]))]
  /\ UNCHANGED <<client, envVars, pyVars, uploadsDir, instructorData>>

\* checkPython.on('close', (code) => res.json(...))
HealthClose(rec, code, pythonVersion) ==
  Respond(rec, 200, [status |-> "ok", python_available |-> (code = 0),
                     python_version |-> pythonVersion,
                     python_command |-> PYTHON_CMD])

\* checkPython has no 'error' listener: the event is thrown as an uncaught
\* exception and the server process ends, the request unanswered
HealthError(rec) == [rec EXCEPT !.pc = "crashed"]

\* ------------------------------------------------------------------------
\* POST /api/login
\* ------------------------------------------------------------------------

ADMIN_CREDENTIALS == [username |-> "admin@edusense.com", password |-> "demo123"]

MsgLoginOk == Text("Login successful")
MsgInvalidCredentials == Text("Invalid credentials")

\* the JSON body of POST /api/login
LoginInputs ==
  {[username |-> u, password |-> p] :
     u \in {ADMIN_CREDENTIALS.username, "admin"},
     p \in {ADMIN_CREDENTIALS.password, "Demo123"}}

\* the login handler
Login(rec) ==
  IF /\ rec.input.username = ADMIN_CREDENTIALS.username
     /\ rec.input.password = ADMIN_CREDENTIALS.password
    THEN Respond(rec, 200, [success |-> TRUE, message |-> MsgLoginOk,
                            user |-> [username |-> rec.input.username, role |-> "admin"]])
    ELSE Respond(rec, 401, [success |-> FALSE, message |-> MsgInvalidCredentials])

\* a POST /api/login arrives
LoginRequest(input) ==
  /\ ServerUp
  /\ \E r \in DOMAIN reqs : CanTake(r)
  /\ reqs' = [reqs EXCEPT ![NextSlot] = Login(NewReq("login", input))]
  /\ UNCHANGED <<client, envVars, pyVars, uploadsDir, instructorData>>

\* ------------------------------------------------------------------------
\* POST /api/download-report and POST /api/download-csv
\* ------------------------------------------------------------------------

MsgNoData == Text("No data provided")
MsgForEachOfUndefined == Text("Cannot read properties of undefined (reading 'forEach')")
MsgFieldOfUndefined == Text("Cannot read properties of undefined (reading 'total_responses')")
MsgReplaceOfUndefined == Text("Cannot read properties of undefined (reading 'replace')")

\* JavaScript objects are functions from field names to values
EmptyObject == [f \in {} |-> 0]

ListFields == <<"top_praise_areas", "improvement_areas", "recommendations">>

FullSummary ==
  [total_responses |-> 3, average_rating |-> 4, avg_sentiment_percentage |-> 67,
   key_themes_count |-> 2, top_praise_areas |-> <<"clarity">>,
   improvement_areas |-> <<>>, recommendations |-> <<"more examples">>]

\* a summary whose numbers are zero and whose lists are empty
ZeroSummary ==
  [total_responses |-> 0, average_rating |-> 0, avg_sentiment_percentage |-> 0,
   key_themes_count |-> 0, top_praise_areas |-> <<>>,
   improvement_areas |-> <<>>, recommendations |-> <<>>]

FullItem ==
  [student_id |-> "S1", course |-> "CS101", instructor |-> "A B", rating |-> "5",
   sentiment |-> "positive", category |-> "praise",
   feedback_text |-> <<"s", "a", "i", "d", " ", "\"", "o", "k", "\"">>]

\* an instructor name with a run of two spaces
NameRun == <<"A", " ", " ", "B">>

\* the JSON body of the download requests: data absent or an object,
\* instructor absent or a name
DownloadInputs ==
  {[hasData |-> FALSE, data |-> EmptyObject, hasInstructor |-> FALSE, instructor |-> <<>>]}
  \cup
  {[hasData |-> TRUE, data |-> d, hasInstructor |-> FALSE, instructor |-> <<>>] :
     d \in {[summary |-> EmptyObject],
            [summary |-> EmptyObject, individual_analysis |-> <<>>],
            [individual_analysis |-> <<>>],
            [summary |-> FullSummary, individual_analysis |-> <<FullItem>>]}}
  \cup
  {[hasData |-> TRUE, data |-> [summary |-> FullSummary, individual_analysis |-> <<>>],
    hasInstructor |-> TRUE, instructor |-> NameRun]}

\* `${obj[f]}` in a template literal, for a field holding a number
Show(obj, f) == IF f \in DOMAIN obj THEN ToString(obj[f]) ELSE "undefined"

\* String.prototype.replace(/\s+/g, '_'): every run of spaces becomes one '_'
RECURSIVE ReplaceSpaceRuns(_)
ReplaceSpaceRuns(s) ==
  IF Len(s) = 0 THEN <<>>
  ELSE IF s[1] /= " " THEN <<s[1]>> \o ReplaceSpaceRuns(Tail(s))
  ELSE IF Len(s) > 1 /\ s[2] = " " THEN ReplaceSpaceRuns(Tail(s))
  ELSE <<"_">> \o ReplaceSpaceRuns(Tail(s))

\* String.prototype.replace(/"/g, '""')
RECURSIVE DoubleQuotes(_)
DoubleQuotes(s) ==
  IF Len(s) = 0 THEN <<>>
  ELSE (IF s[1] = "\"" THEN <<"\"", "\"">> ELSE <<s[1]>>) \o DoubleQuotes(Tail(s))

\* instructor ? instructor.replace(/\s+/g, '_') : 'feedback'
FileBase(input) ==
  IF input.hasInstructor /\ Truthy(input.instructor)
    THEN ReplaceSpaceRuns(input.instructor)
    ELSE <<"f", "e", "e", "d", "b", "a", "c", "k">>

\* the lines list.forEach((x, i) => ...) appends
Numbered(list) == [i \in 1..Len(list) |-> <<ToString(i), ". ", list[i]>>]

\* the lines of the report before the summary (the Generated line depends on
\* the clock only and is left out)
ReportHead(input) ==
  << <<"EDUSENSE - FEEDBACK ANALYSIS REPORT">>,
     <<"Instructor: ">> \o
       (IF input.hasInstructor /\ Truthy(input.instructor)
          THEN input.instructor ELSE <<"A", "l", "l">>) >>

\* the lines of the summary block of the report, every list field present
ReportSummary(summary) ==
  << <<"SUMMARY">>,
     <<"Total Responses: ", Show(summary, "total_responses")>>,
     <<"Average Rating: ", Show(summary, "average_rating")>>,
     <<"Positive Sentiment: ", Show(summary, "avg_sentiment_percentage"), "%">>,
     <<"Key Themes: ", Show(summary, "key_themes_count")>>,
     <<"TOP PRAISE AREAS">> >> \o Numbered(summary.top_praise_areas)
  \o << <<"AREAS FOR IMPROVEMENT">> >> \o Numbered(summary.improvement_areas)
  \o << <<"RECOMMENDATIONS">> >> \o Numbered(summary.recommendations)

\* res.setHeader(...); res.send(content)
Attachment(rec, type, filename, content) ==
  Respond(rec, 200, [contentType |-> type, attachment |-> filename, content |-> content])

\* the handler of POST /api/download-report; an exception it throws goes to
\* the error handling middleware registered after it
DownloadReport(rec) ==
  LET input == rec.input
      filename == FileBase(input) \o <<"_report.txt">>
  IN  IF input.hasData /\ "summary" \in DOMAIN input.data
        THEN IF \E i \in DOMAIN ListFields : ListFields[i] \notin DOMAIN input.data.summary
               THEN ErrorMiddleware(rec, [multer |-> FALSE, code |-> "",
                                          message |-> MsgForEachOfUndefined])
               ELSE Attachment(rec, "text/plain", filename,
                               ReportHead(input) \o ReportSummary(input.data.summary))
        ELSE Attachment(rec, "text/plain", filename, ReportHead(input))

\* Express's final handler: no error handling middleware is registered after
\* the route, the answer is 500 with an HTML page
FinalHandler(rec, message) == Respond(rec, 500, [html |-> message])

\* [a, b, ...].join(','): an undefined element gives the empty string
CsvCell(item, f) == IF f \in DOMAIN item THEN item[f] ELSE ""

\* the line of one element of individual_analysis
CsvRow(item) ==
  <<CsvCell(item, "student_id"), CsvCell(item, "course"), CsvCell(item, "instructor"),
    CsvCell(item, "rating"), CsvCell(item, "sentiment"), CsvCell(item, "category"),
    <<"\"">> \o DoubleQuotes(item.feedback_text) \o <<"\"">> >>

\* the lines of the summary section of the CSV
CsvSummary(summary) ==
  << <<"SUMMARY">>,
     <<"Total Responses", Show(summary, "total_responses")>>,
     <<"Average Rating", Show(summary, "average_rating")>>,
     <<"Positive Sentiment %", Show(summary, "avg_sentiment_percentage")>>,
     <<"Key Themes", Show(summary, "key_themes_count")>> >>

\* new Date().toISOString().split('T')[0]
Today == "2026-01-01"

\* the handler of POST /api/download-csv; it is registered after the error
\* handling middleware, an exception it throws goes to the final handler
DownloadCsv(rec) ==
  LET input == rec.input
      filename == FileBase(input) \o <<"_analysis_", Today, ".csv">>
  IN  IF ~input.hasData \/ "individual_analysis" \notin DOMAIN input.data
        THEN Respond(rec, 400, [success |-> FALSE, error |-> MsgNoData])
      ELSE LET items == input.data.individual_analysis
           IN  IF \E i \in DOMAIN items : "feedback_text" \notin DOMAIN items[i]
                 THEN FinalHandler(rec, MsgReplaceOfUndefined)
               ELSE IF "summary" \notin DOMAIN input.data
                 THEN FinalHandler(rec, MsgFieldOfUndefined)
               ELSE Attachment(rec, "text/csv", filename,
                      << <<"Student ID,Course,Instructor,Rating,Sentiment,Category,Feedback">> >>
                      \o [i \in DOMAIN items |-> CsvRow(items[i])]
                      \o CsvSummary(input.data.summary))

\* a POST /api/download-report arrives
DownloadReportRequest(input) ==
  /\ ServerUp
  /\ \E r \in DOMAIN reqs : CanTake(r)
  /\ reqs' = [reqs EXCEPT ![NextSlot] = DownloadReport(NewReq("report", input))]
  /\ UNCHANGED <<client, envVars, pyVars, uploadsDir, instructorData>>

\* a POST /api/download-csv arrives
DownloadCsvRequest(input) ==
  /\ ServerUp
  /\ \E r \in DOMAIN reqs : CanTake(r)
  /\ reqs' = [reqs EXCEPT ![NextSlot] = DownloadCsv(NewReq("csv", input))]
  /\ UNCHANGED <<client, envVars, pyVars, uploadsDir, instructorData>>

\* ------------------------------------------------------------------------
\* POST /api/chat
\* ------------------------------------------------------------------------

MsgNoMessage == Text("No message provided")
MsgSummaryNotDefined == Text("summary is not defined")
AiText == Text("Consider more worked examples.")

\* the bodies of a chat request: message and conversationHistory given or not
ChatInputs ==
  {[message |-> FALSE, history |-> FALSE],
   [message |-> TRUE, history |-> FALSE],
   [message |-> TRUE, history |-> TRUE]}

\* the fetch of the AI service: an answer with content, an answer without,
\* or no connection
AiOutcomes == {"answer", "invalid", "failed"}

\* the catch block reads summary, a const of the try block: it throws a
\* ReferenceError before it answers and the async handler rejects. Express 4
\* leaves the rejection unhandled and node ends the process; Express 5 hands
\* it to the final handler, the route being registered after the error
\* middleware
ChatCatch(rec) ==
  {[rec EXCEPT !.pc = "crashed"], FinalHandler(rec, MsgSummaryNotDefined)}

\* the chat handler up to the await of the fetch
ChatEntry(rec) ==
  IF ~rec.input.message
    THEN {Respond(rec, 400, [success |-> FALSE, error |-> MsgNoMessage])}
  ELSE IF ~rec.input.history
    THEN ChatCatch(rec)
  ELSE {[rec EXCEPT !.pc = "fetching"]}

\* a POST /api/chat arrives
ChatRequest(input) ==
  /\ ServerUp
  /\ \E r \in DOMAIN reqs : CanTake(r)
  /\ \E rec \in ChatEntry(NewReq("chat", input)) : reqs' = [reqs EXCEPT ![NextSlot] = rec]
  /\ UNCHANGED <<client, envVars, pyVars, uploadsDir, instructorData>>

\* the fetch of the AI service ends and the chat handler goes on
ChatFetched(r, outcome) ==
  /\ ServerUp
  /\ r \in DOMAIN reqs
  /\ reqs[r].route = "chat"
  /\ reqs[r].pc = "fetching"
  /\ \E rec \in IF outcome = "answer"
                   THEN {Respond(reqs[r], 200, [success |-> TRUE, response |-> AiText])}
                   ELSE ChatCatch(reqs[r]) :
       reqs' = [reqs EXCEPT ![r] = rec]
  /\ UNCHANGED <<client, envVars, pyVars, uploadsDir, instructorData>>

\* ------------------------------------------------------------------------
\* The external processes and their events
\* ------------------------------------------------------------------------

\* what a process can have printed on stdout when it ends
ProcStdout == AnalyzerStdout \cup {VersionText}

\* the continuation of the handler that awaits the promise of request r
Continue(r, rec) ==
  IF rec.route = "upload"
    THEN UploadAfter(r, rec)
    ELSE reqs' = [reqs EXCEPT ![r] = AnalyzeAfter(rec)] /\ UNCHANGED uploadsDir

\* the script of request r runs to its end: the splitter writes its files
ProcExit(r, code, out, err) ==
  /\ ServerUp
  /\ r \in DOMAIN reqs
  /\ reqs[r].proc = "running"
  /\ code = 0 => err = <<>>
  /\ IF reqs[r].route = "upload"
       THEN /\ out = <<>>
            /\ err /= ErrModule
            /\ instructorData' =
                 IF code = 0 THEN instructorData \cup SplitterFiles(reqs[r].input.csv)
                 ELSE instructorData
       ELSE IF reqs[r].route = "health"
         THEN /\ out = (IF code = 0 THEN VersionText ELSE <<>>)
              /\ err = <<>>
              /\ UNCHANGED instructorData
       ELSE out \in AnalyzerStdout /\ UNCHANGED instructorData
  /\ reqs' = [reqs EXCEPT ![r].proc = "exited",
                          ![r].exit = [code |-> code, stdout |-> out, stderr |-> err]]
  /\ UNCHANGED <<client, envVars, pyVars, uploadsDir>>

\* the 'error' event of the process of request r: it could not be started
ProcError(r) ==
  /\ ServerUp
  /\ r \in DOMAIN reqs
  /\ reqs[r].proc = "running"
  /\ IF reqs[r].route = "health"
       THEN /\ reqs' = [reqs EXCEPT ![r] = HealthError([reqs[r] EXCEPT !.proc = "errored"])]
            /\ UNCHANGED uploadsDir
       ELSE LET rec == OnError([reqs[r] EXCEPT !.proc = "errored"], MsgEnoent(PYTHON_CMD))
            IN  IF reqs[r].promise.state = "pending"
                  THEN Continue(r, rec)
                  ELSE reqs' = [reqs EXCEPT ![r] = rec] /\ UNCHANGED uploadsDir
  /\ UNCHANGED <<client, envVars, pyVars, instructorData>>

\* the 'close' event of the process of request r
ProcClose(r) ==
  /\ ServerUp
  /\ r \in DOMAIN reqs
  /\ reqs[r].proc \in {"exited", "errored"}
  /\ LET code == IF reqs[r].proc = "errored" THEN -2 ELSE reqs[r].exit.code
     IN  IF reqs[r].route = "health"
           THEN /\ reqs' = [reqs EXCEPT ![r] =
                      HealthClose([reqs[r] EXCEPT !.proc = "closed"], code,
                                  reqs[r].exit.stdout \o reqs[r].exit.stderr)]
                /\ UNCHANGED uploadsDir
           ELSE LET rec == OnClose([reqs[r] EXCEPT !.proc = "closed"], code,
                                   reqs[r].exit.stdout, reqs[r].exit.stderr)
                IN  IF reqs[r].promise.state = "pending"
                      THEN Continue(r, rec)
                      ELSE reqs' = [reqs EXCEPT ![r] = rec] /\ UNCHANGED uploadsDir
  /\ UNCHANGED <<client, envVars, pyVars, instructorData>>

\* ------------------------------------------------------------------------
\* Specification
\* ------------------------------------------------------------------------

Next ==
  \/ \E p \in ProbeIds : ProbeClose(p)
  \/ \E p \in ProbeIds : ProbeError(p)
  \/ \E input \in UploadInputs : UploadRequest(input)
  \/ \E r \in 1..MaxReq : UploadHandler(r)
  \/ \E input \in AnalyzeInputs : AnalyzeRequest(input)
  \/ HealthRequest
  \/ \E r \in 1..MaxReq, code \in {0, 1}, out \in ProcStdout, err \in ScriptStderr :
       ProcExit(r, code, out, err)
  \/ \E r \in 1..MaxReq : ProcError(r)
  \/ \E r \in 1..MaxReq : ProcClose(r)

Spec == Init /\ [][Next]_vars

\* ------------------------------------------------------------------------
\* The login, chat and download routes
\* ------------------------------------------------------------------------

\* the login, chat and download handlers read nothing but their request:
\* they are explored on their own, from the start of the server, beside the
\* startup discovery
DownloadNext ==
  \/ \E input \in LoginInputs : LoginRequest(input)
  \/ \E input \in ChatInputs : ChatRequest(input)
  \/ \E r \in 1..MaxReq, outcome \in AiOutcomes : ChatFetched(r, outcome)
  \/ \E p \in ProbeIds : ProbeClose(p)
  \/ \E p \in ProbeIds : ProbeError(p)
  \/ \E input \in DownloadInputs : DownloadReportRequest(input)
  \/ \E input \in DownloadInputs : DownloadCsvRequest(input)

DownloadSpec == Init /\ [][DownloadNext]_vars

\* ------------------------------------------------------------------------
\* Startup on every installation
\* ------------------------------------------------------------------------

\* server.js loaded on either platform, each candidate command answering
\* the probe, failing it, or not being installed
StartupInit ==
  /\ deployed = SecondCopy
  /\ platform \in Platforms
  /\ answers \in [Range(CommandsFor(platform)) -> ProbeAnswers]
  /\ scripts = {ExtractScript, AnalyzeScript}
  /\ PYTHON_CMD = Null
  /\ index = 0
  /\ probes = <<[cmd |-> CommandsFor(platform)[1], phase |-> "running"]>>
  /\ pyPromise = "pending"
  /\ uploadsDir = {}
  /\ instructorData = {}
  /\ reqs = [r \in 1..MaxReq |-> FreeReq]
  /\ client = ClientStart

StartupNext ==
  \/ \E p \in ProbeIds : ProbeClose(p)
  \/ \E p \in ProbeIds : ProbeError(p)

StartupSpec == StartupInit /\ [][StartupNext]_vars

\* ------------------------------------------------------------------------
\* Overlapping uploads
\* ------------------------------------------------------------------------

\* the uploads of the race: stored CSV files of one instructor each
RaceUploads ==
  {[present |-> TRUE, mimeCsv |-> TRUE, extCsv |-> TRUE, oversized |-> FALSE,
    csv |-> [column |-> TRUE, instructors |-> {n}]] : n \in {NameSpace, NameTwice}}

\* the server after its startup found the first candidate, both scripts in
\* place, the directories empty, no request received yet
RaceInit ==
  /\ deployed = SecondCopy
  /\ platform = "linux"
  /\ answers = [c \in Range(CommandsFor("linux")) |-> "ok"]
  /\ scripts = {ExtractScript, AnalyzeScript}
  /\ PYTHON_CMD = CommandsFor("linux")[1]
  /\ index = 0
  /\ probes = <<[cmd |-> CommandsFor("linux")[1], phase |-> "closed"]>>
  /\ pyPromise = "resolved"
  /\ uploadsDir = {}
  /\ instructorData = {}
  /\ reqs = [r \in 1..MaxUploads |-> FreeReq]
  /\ client = ClientStart

\* one more client uploads, while the uploads before it are in flight
RaceUpload(input) ==
  /\ \E r \in DOMAIN reqs : CanTake(r)
  /\ reqs[NextSlot].pc = "free"
  /\ UploadRequest(input)

RaceNext ==
  \/ \E input \in RaceUploads : RaceUpload(input)
  \/ \E r \in 1..MaxUploads : UploadHandler(r)
  \/ \E r \in 1..MaxUploads, code \in {0, 1}, out \in ProcStdout, err \in ScriptStderr :
       ProcExit(r, code, out, err)
  \/ \E r \in 1..MaxUploads : ProcError(r)
  \/ \E r \in 1..MaxUploads : ProcClose(r)

RaceSpec == RaceInit /\ [][RaceNext]_vars

\* ------------------------------------------------------------------------
\* The client page: App, Navbar, LoginPage and UploadPage (page.js)
\* ------------------------------------------------------------------------

\* most fetches under way at once
MaxFetches == 2

MsgCannotConnectLogin ==
  Text("Cannot connect to server. Please ensure the backend is running on port 5000.")
MsgLoginFailed == Text("Login failed")
MsgSelectValidCsv == Text("Please select a valid CSV file")
MsgSelectFirst == Text("Please select a file first")
MsgCannotConnectUpload ==
  Text("Cannot connect to server. Please ensure the backend is running.")
MsgUploadFailed == Text("Upload failed")

\* body.f of a parsed response body where f holds a text: '' stands for absent
TextField(body, f) == IF f \in DOMAIN body THEN body[f] ELSE <<>>

\* the sequence s without its i-th element
Without(s, i) == SubSeq(s, 1, i - 1) \o SubSeq(s, i + 1, Len(s))

\* App.handleLogin leading straight to the dashboard
handleLoginToDashboard(c, userData) ==
  [c EXCEPT !.user = userData, !.currentPage = "dashboard"]

\* App.handleLogin
handleLogin(c, userData) ==
  [c EXCEPT !.user = userData, !.currentPage = "upload"]

\* App.handleLogout leaving the analysis data in place
handleLogoutKeepsData(c) ==
  [c EXCEPT !.user = JsNull, !.currentPage = "login"]

\* App.handleLogout
handleLogout(c) ==
  [c EXCEPT !.user = JsNull, !.analysisData = JsNull, !.currentPage = "login"]

\* App.handleAnalysisComplete
handleAnalysisComplete(c, data) ==
  [c EXCEPT !.analysisData = data, !.currentPage = "dashboard"]

\* App.handleNewUpload
handleNewUpload(c) ==
  [c EXCEPT !.analysisData = JsNull, !.currentPage = "upload"]

\* the onToggleTheme closure of App
ToggleTheme(c) == [c EXCEPT !.isDark = ~@]

\* the component App renders; "none" when no branch of its return applies
Rendered(c) ==
  IF c.currentPage = "login" THEN "LoginPage"
  ELSE IF c.currentPage = "upload" THEN "UploadPage"
  ELSE IF c.currentPage = "dashboard" /\ JsTruthy(c.analysisData) THEN "DashboardPage"
  ELSE "none"

\* a component that is no longer rendered loses its state, and starts from
\* its useState values when rendered again
Mount(c) ==
  [c EXCEPT !.loginPage = IF Rendered(c) = "LoginPage" THEN @ ELSE LoginPageStart,
            !.uploadPage = IF Rendered(c) = "UploadPage" THEN @ ELSE UploadPageStart]

\* the showActions property each page passes to Navbar
ShowActions(page) == page = "DashboardPage"

\* Navbar shows the Logout button
LogoutShown(c) == Rendered(c) \in {"UploadPage", "DashboardPage"} /\ ShowActions(Rendered(c))

\* the part of LoginPage.handleLogin before the fetch is answered
LoginPageSubmit(c) ==
  [c EXCEPT !.loginPage.loading = TRUE, !.loginPage.error = <<>>,
            !.fetches = Append(@, [kind |-> "login",
                                   input |-> [username |-> c.loginPage.username,
                                              password |-> c.loginPage.password]])]

\* the part of LoginPage.handleLogin after response.json()
LoginPageAnswered(c, data) ==
  LET branch == IF "success" \in DOMAIN data /\ data.success
                  THEN handleLogin(c, JsField(data, "user"))
                  ELSE [c EXCEPT !.loginPage.error =
                                   OrElse(TextField(data, "message"), MsgLoginFailed)]
  IN  Mount([branch EXCEPT !.loginPage.loading = FALSE])

\* the catch and finally blocks of LoginPage.handleLogin
LoginPageCatch(c) ==
  [c EXCEPT !.loginPage.error = MsgCannotConnectLogin, !.loginPage.loading = FALSE]

\* LoginPage.handleDemo
handleDemo(c) ==
  [c EXCEPT !.loginPage.username = "admin@edusense.com", !.loginPage.password = "demo123"]

\* the files of a file dialog: none chosen, two CSV files, a text file
Selections ==
  {[picked |-> FALSE, name |-> "", type |-> ""],
   [picked |-> TRUE, name |-> "feedback.csv", type |-> "text/csv"],
   [picked |-> TRUE, name |-> "autumn.csv", type |-> "text/csv"],
   [picked |-> TRUE, name |-> "notes.txt", type |-> "text/plain"]}

\* UploadPage.handleFileChange
handleFileChange(c, selectedFile) ==
  IF selectedFile.picked /\ selectedFile.type = "text/csv"
    THEN [c EXCEPT !.uploadPage.file = selectedFile.name, !.uploadPage.error = <<>>]
    ELSE [c EXCEPT !.uploadPage.error = MsgSelectValidCsv, !.uploadPage.file = "null"]

\* the upload button disabled only while no file is chosen
UploadDisabledNoFile(c) == c.uploadPage.file = "null"

\* the disabled property of the upload button
UploadDisabled(c) == c.uploadPage.file = "null" \/ c.uploadPage.uploading

\* the part of UploadPage.handleUpload before the fetch is answered
handleUpload(c) ==
  IF c.uploadPage.file = "null"
    THEN [c EXCEPT !.uploadPage.error = MsgSelectFirst]
    ELSE [c EXCEPT !.uploadPage.uploading = TRUE, !.uploadPage.error = <<>>,
                   !.fetches = Append(@, [kind |-> "upload", input |-> c.uploadPage.file])]

\* the part of UploadPage.handleUpload after response.json()
UploadPageAnswered(c, data) ==
  LET branch == IF "success" \in DOMAIN data /\ data.success
                  THEN handleAnalysisComplete(c, JsField(data, "data"))
                  ELSE [c EXCEPT !.uploadPage.error =
                                   OrElse(TextField(data, "error"), MsgUploadFailed)]
  IN  Mount([branch EXCEPT !.uploadPage.uploading = FALSE])

\* the catch and finally blocks of UploadPage.handleUpload
UploadPageCatch(c) ==
  [c EXCEPT !.uploadPage.error = MsgCannotConnectUpload, !.uploadPage.uploading = FALSE]

\* the part of DashboardPage.handleDownloadReport before the fetch is answered
handleDownloadReport(c) ==
  [c EXCEPT !.fetches = Append(@, [kind |-> "report", input |-> c.analysisData])]

\* the CSV behind the file the user uploads
ClientCsv == [column |-> TRUE, instructors |-> {NameSpace}]

\* ---- POST /api/upload of the first copy, which analyses the file itself

\* a line analyze.py writes to stderr when it cannot open the CSV
ErrFileNotFound == Text("FileNotFoundError: [Errno 2] No such file or directory")
AnalyzerStderr == ScriptStderr \cup {ErrFileNotFound}

\* errorString.includes('FileNotFoundError')
IncludesFileNotFound(t) == t = ErrFileNotFound

\* parseError.message for the value thrown in the try block of the 'close'
\* listener: the SyntaxError of JSON.parse, or the TypeError of result.error
\* on null; the wording is that of the Node.js release, older or newer
ParseErrorMessages(t) ==
  CASE t = <<>> -> {Text("Unexpected end of JSON input")}
    [] t = OutGarbage ->
         {Text("Unexpected token T in JSON at position 0"),
          Text("Unexpected token 'T', \"Traceback \"... is not valid JSON")}
    [] t = OutJsonNull ->
         {Text("Cannot read property 'error' of null"),
          Text("Cannot read properties of null (reading 'error')")}
    [] OTHER -> {}

\* the 'close' listener of pythonProcess: the responses it can send
FirstUploadClose(code, dataString, errorString, originalname) ==
  IF code /= 0
    THEN LET errorMessage ==
               IF IncludesModuleNotFound(errorString)
                 THEN Text("Python dependencies missing. Please run: pip install transformers torch pandas")
               ELSE IF IncludesFileNotFound(errorString)
                 THEN Text("CSV file could not be read. Please check the file format.")
               ELSE OrElse(errorString, OrElse(dataString, MsgAnalysisFailed))
         IN  {[status |-> 500,
               body |-> [success |-> FALSE, error |-> errorMessage, code |-> code,
                         details |-> [stderr |-> errorString, stdout |-> dataString]]]}
    ELSE LET result == JSONparse(dataString)
         IN  IF ~result.ok \/ result.type = "null"
               THEN {[status |-> 500,
                      body |-> [success |-> FALSE,
                                error |-> Text("Failed to parse analysis results"),
                                details |-> message]] :
                       message \in ParseErrorMessages(dataString)}
             ELSE IF HasTruthyError(result)
               THEN {[status |-> 400, body |-> [success |-> FALSE, error |-> result.obj.error]]}
             ELSE {[status |-> 200,
                    body |-> [success |-> TRUE, data |-> result.obj,
                              filename |-> originalname]]}

\* the 'error' listener of pythonProcess, which is called before 'close'
FirstUploadError(cmd) ==
  [status |-> 500,
   body |-> [success |-> FALSE,
             error |-> Text("Failed to start analysis: ") \o MsgEnoent(cmd)]]

\* the responses of the first copy to the file the page sends, which has the
\* CSV type: that of its error middleware for a file over the limit, those of
\* the checks of the handler (no runtime, no analyze.py), and those of the
\* two listeners, for each way analyze.py can end
FirstUploadAnswers(originalname) ==
  {[status |-> 400, body |-> [success |-> FALSE, error |-> MsgTooLarge]],
   [status |-> 500,
    body |-> [success |-> FALSE,
              error |-> Text("Python is not installed or not found in PATH. Please install Python from https://www.python.org/downloads/ and restart the server.")]],
   [status |-> 500,
    body |-> [success |-> FALSE,
              error |-> Text("Analysis script (analyze.py) not found. Please ensure analyze.py is in the server directory.")]]}
  \cup {FirstUploadError(cmd) : cmd \in Range(CommandsFor("linux"))}
  \cup UNION {FirstUploadClose(code, dataString, errorString, originalname) :
                code \in {0, 1}, dataString \in AnalyzerStdout,
                errorString \in AnalyzerStderr}

\* ---- POST /api/upload of the second copy, which lists the instructors

\* the bodies the serving handler of the second copy answers the page's file
\* with (the list of instructors, no instructor found, no runtime, no script,
\* the script failed or could not be started), and that of its error
\* middleware for a file over the limit
ServingUploadAnswers ==
  {UploadSuccessBody(UploadInstructors(UploadFiles(listing))) :
     listing \in Orderings(SplitterFiles(ClientCsv))}
  \cup {[success |-> FALSE, error |-> MsgNoInstructor],
        [success |-> FALSE, error |-> MsgNoPython],
        [success |-> FALSE, error |-> MsgNoExtract],
        [success |-> FALSE, error |-> MsgTooLarge]}
  \cup {UploadCatchBody([stderr |-> stderr, error |-> error]) :
          stderr \in ScriptStderr,
          error \in {<<>>} \cup {MsgEnoent(cmd) : cmd \in Range(CommandsFor("linux"))}}

\* the bodies POST /api/upload of the deployed copy answers the page's file
\* with
UploadAnswers(copy, originalname) ==
  IF copy = FirstCopy
    THEN {answer.body : answer \in FirstUploadAnswers(originalname)}
    ELSE ServingUploadAnswers

\* the body POST /api/login answers the page's credentials with
LoginAnswer(input) == Login(NewReq("login", input)).responses[1].body

serverVars == <<envVars, pyVars, uploadsDir, instructorData, reqs>>

\* a click on the theme button of the page shown
ClientToggleTheme ==
  /\ Rendered(client) /= "none"
  /\ client' = ToggleTheme(client)
  /\ UNCHANGED serverVars

\* the texts typed into the inputs of the login form
Usernames == {""} \cup {input.username : input \in LoginInputs}
Passwords == {""} \cup {input.password : input \in LoginInputs}

\* the user types into the Email input
ClientTypeUsername(username) ==
  /\ Rendered(client) = "LoginPage"
  /\ client' = [client EXCEPT !.loginPage.username = username]
  /\ UNCHANGED serverVars

\* the user types into the Password input
ClientTypePassword(password) ==
  /\ Rendered(client) = "LoginPage"
  /\ client' = [client EXCEPT !.loginPage.password = password]
  /\ UNCHANGED serverVars

\* a click on Use Demo Credentials
ClientDemo ==
  /\ Rendered(client) = "LoginPage"
  /\ client' = handleDemo(client)
  /\ UNCHANGED serverVars

\* the login form is submitted: both inputs are required, the button is
\* disabled while loading
ClientLogin ==
  /\ Rendered(client) = "LoginPage"
  /\ ~client.loginPage.loading
  /\ client.loginPage.username /= "" /\ client.loginPage.password /= ""
  /\ Len(client.fetches) < MaxFetches
  /\ client' = LoginPageSubmit(client)
  /\ UNCHANGED serverVars

\* the user picks a file
ClientFileChange(selectedFile) ==
  /\ Rendered(client) = "UploadPage"
  /\ client' = handleFileChange(client, selectedFile)
  /\ UNCHANGED serverVars

\* a click on Analyze Feedback
ClientUpload ==
  /\ Rendered(client) = "UploadPage"
  /\ ~UploadDisabled(client)
  /\ Len(client.fetches) < MaxFetches
  /\ client' = handleUpload(client)
  /\ UNCHANGED serverVars

\* a fetch is answered and the handler that awaited it goes on
ClientAnswered(i, data) ==
  /\ i \in 1..Len(client.fetches)
  /\ LET f == client.fetches[i]
         c == [client EXCEPT !.fetches = Without(@, i)]
     IN  /\ f.kind /= "report"
         /\ IF f.kind = "login"
           THEN data = LoginAnswer(f.input) /\ client' = LoginPageAnswered(c, data)
           ELSE data \in UploadAnswers(deployed, f.input) /\ client' = UploadPageAnswered(c, data)
  /\ UNCHANGED serverVars

\* a fetch fails: the server cannot be reached
ClientCatch(i) ==
  /\ i \in 1..Len(client.fetches)
  /\ LET f == client.fetches[i]
         c == [client EXCEPT !.fetches = Without(@, i)]
     IN  /\ f.kind /= "report"
         /\ client' = Mount(IF f.kind = "login" THEN LoginPageCatch(c)
                                                ELSE UploadPageCatch(c))
  /\ UNCHANGED serverVars

\* a click on Download Report
ClientDownloadReport ==
  /\ Rendered(client) = "DashboardPage"
  /\ Len(client.fetches) < MaxFetches
  /\ client' = handleDownloadReport(client)
  /\ UNCHANGED serverVars

\* the report fetch ends: the blob is saved or the failure alerted, and no
\* state of the page is set
ClientReportEnds(i) ==
  /\ i \in 1..Len(client.fetches)
  /\ client.fetches[i].kind = "report"
  /\ client' = [client EXCEPT !.fetches = Without(@, i)]
  /\ UNCHANGED serverVars

\* a click on New Upload
ClientNewUpload ==
  /\ Rendered(client) = "DashboardPage"
  /\ client' = Mount(handleNewUpload(client))
  /\ UNCHANGED serverVars

\* a click on Logout
ClientLogout ==
  /\ LogoutShown(client)
  /\ client' = Mount(handleLogout(client))
  /\ UNCHANGED serverVars

\* the page is loaded while the server, either copy of it, is up
ClientInit ==
  /\ deployed \in {FirstCopy, SecondCopy}
  /\ platform = "linux"
  /\ answers = [c \in Range(CommandsFor("linux")) |-> "ok"]
  /\ scripts = {ExtractScript, AnalyzeScript}
  /\ PYTHON_CMD = CommandsFor("linux")[1]
  /\ index = 0
  /\ probes = <<[cmd |-> CommandsFor("linux")[1], phase |-> "closed"]>>
  /\ pyPromise = "resolved"
  /\ uploadsDir = {}
  /\ instructorData = {}
  /\ reqs = [r \in 1..MaxReq |-> FreeReq]
  /\ client = ClientStart

ClientAnswers ==
  UNION {UploadAnswers(copy, selectedFile.name) :
           copy \in {FirstCopy, SecondCopy}, selectedFile \in Selections}
  \cup {LoginAnswer(input) : input \in LoginInputs}

ClientNext ==
  \/ ClientToggleTheme
  \/ ClientDemo
  \/ \E username \in Usernames : ClientTypeUsername(username)
  \/ \E password \in Passwords : ClientTypePassword(password)
  \/ ClientLogin
  \/ \E selectedFile \in Selections : ClientFileChange(selectedFile)
  \/ ClientUpload
  \/ \E i \in 1..MaxFetches, data \in ClientAnswers : ClientAnswered(i, data)
  \/ \E i \in 1..MaxFetches : ClientCatch(i)
  \/ ClientDownloadReport
  \/ \E i \in 1..MaxFetches : ClientReportEnds(i)
  \/ ClientNewUpload
  \/ ClientLogout

ClientSpec == ClientInit /\ [][ClientNext]_vars

TypeOK ==
  /\ deployed \in {FirstCopy, SecondCopy}
  /\ PYTHON_CMD \in {Null} \cup Range(commands)
  /\ DOMAIN reqs = 1..MaxReq

\* ------------------------------------------------------------------------
\* Vocabulary of the claims
\* ------------------------------------------------------------------------

ReqIds == 1..MaxReq

\* the response of an answered request
Resp(r) == reqs[r].responses[1]

Answered(r) == reqs[r].pc = "done"

\* an upload whose file part has neither the CSV MIME type nor the extension
WrongTypeUpload(rec) ==
  /\ rec.route = "upload"
  /\ rec.input.present
  /\ ~rec.input.mimeCsv
  /\ ~rec.input.extCsv

\* an upload whose file multer stores in uploads/ and hands to the handler
StoredUpload(rec) ==
  /\ rec.route = "upload"
  /\ rec.input.present
  /\ rec.input.mimeCsv \/ rec.input.extCsv
  /\ ~rec.input.oversized

\* an upload answered with the instructor list
UploadSucceeded(r) ==
  /\ reqs[r].route = "upload"
  /\ Answered(r)
  /\ Resp(r).status = 200

\* this step puts a new request into slot r
Arrives(r) ==
  /\ CanTake(r)
  /\ reqs'[r] /= reqs[r]
  /\ reqs'[r] /= [reqs[r] EXCEPT !.proc = "closed"]

\* this step enters the handler of the request of slot r: the step of the
\* arrival, or for an upload the step in which upload.single is done
Enters(r) ==
  \/ Arrives(r) /\ reqs'[r].pc /= "received"
  \/ reqs[r].pc = "received" /\ reqs'[r].pc /= "received"

\* the number of distinct instructors of a CSV, by normalized id
DistinctIds(csv) == Cardinality({NormalizeId(n) : n \in csv.instructors})

NoFeedbackFile == \A f \in instructorData : ~IsFeedbackFile(f)

\* ------------------------------------------------------------------------
\* Claims
\* ------------------------------------------------------------------------

\* C1: the success response of an upload lists exactly as many instructors
\* as the uploaded CSV has distinct Instructor values (by normalized id),
\* also after earlier uploads.  (That no two entries share an id, the second
\* half of the claim, is the first conjunct of C3.)
C1_ExactlyTheInstructorsOfTheCsv ==
  \A r \in ReqIds :
    (UploadSucceeded(r) /\ reqs[r].input.csv.column) =>
      Len(Resp(r).body.instructors) = DistinctIds(reqs[r].input.csv)

\* C2: in every upload success response each entry has
\* filename = id + '_feedback.csv' and name = id with '_' replaced by ' '.
C2_FilenameIsIdPlusSuffix ==
  \A r \in ReqIds :
    UploadSucceeded(r) =>
      \A i \in 1..Len(Resp(r).body.instructors) :
        LET e == Resp(r).body.instructors[i]
        IN  /\ e.filename = e.id \o Suffix
            /\ e.name = ReplaceAllChar(e.id, "_", " ")

\* C3: the instructor list of an upload response is deduplicated by id, the
\* first listed file of an id being the one kept.
C3_DedupedByIdFirstWins ==
  \A r \in ReqIds :
    UploadSucceeded(r) =>
      LET ins == Resp(r).body.instructors
          listed == [i \in 1..Len(ins) |-> ins[i].filename]
      IN  /\ \A i, j \in 1..Len(ins) : ins[i].id = ins[j].id => i = j
          /\ ins = InstructorsDedupe(listed)

\* C4: an upload whose file has neither the .csv extension nor the text/csv
\* MIME type is answered with an error, spawns no process and leaves the
\* instructor-data directory as it was.
C4_NonCsvRejectedWithoutSpawn ==
  [][\A r \in ReqIds :
       WrongTypeUpload(reqs'[r]) =>
         /\ reqs'[r].pc \in {"received", "done"}
         /\ reqs'[r].pc = "received" => reqs'[r].responses = <<>>
         /\ reqs'[r].pc = "done" =>
              /\ Len(reqs'[r].responses) = 1
              /\ reqs'[r].responses[1].status >= 400
              /\ reqs'[r].responses[1].body.success = FALSE
         /\ reqs'[r].spawned = 0
         /\ reqs'[r].proc = "none"
         /\ (Arrives(r) \/ Enters(r)) =>
              instructorData' = instructorData /\ uploadsDir' = uploadsDir]_vars

C4_Witness ==
  \E r \in ReqIds :
    /\ WrongTypeUpload(reqs[r])
    /\ Answered(r)
    /\ reqs[r].spawned = 0

\* C5: an upload without a file, with a file of the wrong type, or with a
\* file over 10 MB is answered with a 4xx status.
C5_ClientErrorsAre4xx ==
  \A r \in ReqIds :
    /\ reqs[r].route = "upload"
    /\ Answered(r)
    /\ \/ ~reqs[r].input.present
       \/ WrongTypeUpload(reqs[r])
       \/ reqs[r].input.oversized
    => Resp(r).status \in 400..499

\* C6: an upload of a CSV without Instructor column, the splitter exiting 0,
\* is answered 400 'No instructor data found.', whatever earlier requests
\* left in the instructor-data directory.
C6_NoColumnIs400 ==
  \A r \in ReqIds :
    /\ StoredUpload(reqs[r])
    /\ Answered(r)
    /\ ~reqs[r].input.csv.column
    /\ reqs[r].promise.state = "resolved"
    => /\ Resp(r).status = 400
       /\ Resp(r).body.error = MsgNoInstructor

\* C7 as claimed: a stored upload whose handler was entered is answered 5xx
\* when PYTHON_CMD is null,
\* when the splitting script is missing, when the splitter exits non-zero
\* and when the splitter leaves no output file.
C7_Original ==
  \A r \in ReqIds :
    (StoredUpload(reqs[r]) /\ reqs[r].pc /= "received") =>
      /\ PYTHON_CMD = Null => Answered(r) /\ Resp(r).status \in 500..599
      /\ ExtractScript \notin scripts => Answered(r) /\ Resp(r).status \in 500..599
      /\ reqs[r].promise.state = "rejectedExit" => Answered(r) /\ Resp(r).status \in 500..599
      /\ (Answered(r) /\ reqs[r].promise.state = "resolved" /\ NoFeedbackFile)
           => Resp(r).status \in 500..599

\* C7 as amended: a stored upload whose handler was entered is answered 500
\* when PYTHON_CMD is null,
\* when the splitting script is missing and when the splitter exits
\* non-zero; when the splitter exits 0 and the directory holds no output
\* file the answer is 400 'No instructor data found.'.
C7_Amended ==
  \A r \in ReqIds :
    (StoredUpload(reqs[r]) /\ reqs[r].pc /= "received") =>
      /\ PYTHON_CMD = Null =>
           Answered(r) /\ Resp(r).status = 500 /\ Resp(r).body.error = MsgNoPython
      /\ ExtractScript \notin scripts => Answered(r) /\ Resp(r).status = 500
      /\ reqs[r].promise.state = "rejectedExit" => Answered(r) /\ Resp(r).status = 500
      /\ (Answered(r) /\ reqs[r].promise.state = "resolved" /\ NoFeedbackFile)
           => Resp(r).status = 400 /\ Resp(r).body.error = MsgNoInstructor

C7_Witness ==
  \E r \in ReqIds :
    /\ StoredUpload(reqs[r])
    /\ Answered(r)
    /\ reqs[r].promise.state = "resolved"
    /\ NoFeedbackFile
    /\ Resp(r).status = 400

\* C8: once an upload that stored a scratch file has been answered, its
\* scratch file is no longer in the uploads directory, on every outcome.
C8_ScratchFileGoneWhenAnswered ==
  \A r \in ReqIds :
    (reqs[r].route = "upload" /\ Answered(r)) => r \notin uploadsDir

C8_Witness ==
  \E r \in ReqIds :
    /\ StoredUpload(reqs[r])
    /\ Answered(r)
    /\ reqs[r].spawned = 1
    /\ reqs[r].promise.state = "rejectedError"
    /\ r \notin uploadsDir

\* C9 as claimed: an analyze request naming a file that is not in the
\* instructor-data directory is answered 404 and spawns nothing, in every
\* state of the server.
C9_Original ==
  \A r \in ReqIds :
    /\ reqs[r].route = "analyze"
    /\ reqs[r].input.given
    /\ Truthy(reqs[r].input.filename)
    /\ reqs[r].input.filename \notin instructorData
    => /\ Answered(r)
       /\ Resp(r).status = 404
       /\ reqs[r].spawned = 0

\* C9 as amended: an analyze request naming a file that is not in the
\* instructor-data directory spawns nothing and is answered at once: 404
\* when PYTHON_CMD is set (also when analyze.py is missing), and 500 with
\* the runtime-unavailable error when PYTHON_CMD is null.
C9_Amended ==
  [][\A r \in ReqIds :
       /\ Arrives(r)
       /\ reqs'[r].route = "analyze"
       /\ reqs'[r].input.given
       /\ Truthy(reqs'[r].input.filename)
       /\ reqs'[r].input.filename \notin instructorData
       => /\ reqs'[r].pc = "done"
          /\ reqs'[r].spawned = 0
          /\ reqs'[r].proc = "none"
          /\ Len(reqs'[r].responses) = 1
          /\ reqs'[r].responses[1].status = IF PYTHON_CMD = Null THEN 500 ELSE 404
          /\ reqs'[r].responses[1].body.error =
               IF PYTHON_CMD = Null THEN MsgNoPython ELSE MsgNotFound]_vars

C9_Witness ==
  \E r \in ReqIds :
    /\ reqs[r].route = "analyze"
    /\ reqs[r].input.filename = GhostFile
    /\ Answered(r)
    /\ Resp(r).status = 404
    /\ AnalyzeScript \notin scripts
    /\ reqs[r].spawned = 0

\* the JSON object the analysis script printed before exiting 0, if any
AnalysisObject(r) == JSONparse(reqs[r].promise.stdout)

AnalysisPrintedObject(r) ==
  /\ reqs[r].route = "analyze"
  /\ Answered(r)
  /\ reqs[r].promise.state = "resolved"
  /\ AnalysisObject(r).ok
  /\ AnalysisObject(r).type = "object"

\* C10 as claimed: when the analysis exits 0 and prints a JSON object with
\* an error field, the answer is 400 {success: false, error} and the object
\* is not returned as data.
C10_Original ==
  \A r \in ReqIds :
    (AnalysisPrintedObject(r) /\ "error" \in DOMAIN AnalysisObject(r).obj) =>
      /\ Resp(r).status = 400
      /\ Resp(r).body.success = FALSE
      /\ Resp(r).body.error = AnalysisObject(r).obj.error
      /\ "data" \notin DOMAIN Resp(r).body

\* C10 as amended: the same for an error field whose value is truthy (a
\* non-empty string); an object whose error field is falsy is returned as
\* data with status 200.
C10_Amended ==
  \A r \in ReqIds :
    (AnalysisPrintedObject(r) /\ "error" \in DOMAIN AnalysisObject(r).obj) =>
      IF Truthy(AnalysisObject(r).obj.error)
        THEN /\ Resp(r).status = 400
             /\ Resp(r).body.success = FALSE
             /\ Resp(r).body.error = AnalysisObject(r).obj.error
             /\ "data" \notin DOMAIN Resp(r).body
        ELSE /\ Resp(r).status = 200
             /\ Resp(r).body.data = AnalysisObject(r).obj

C10_Witness ==
  \E r \in ReqIds :
    /\ AnalysisPrintedObject(r)
    /\ reqs[r].promise.stdout = OutJsonError
    /\ Resp(r).status = 400

\* an analyze request whose process exited non-zero, answered
AnalysisExitedNonZero(r) ==
  /\ reqs[r].route = "analyze"
  /\ Answered(r)
  /\ reqs[r].promise.state = "rejectedExit"

\* C11: when the analysis process exits non-zero the answer is 500; its
\* error message is the error field of the JSON on stdout when stdout parses
\* (an object without a usable error field may give any of the texts),
\* otherwise the raw stderr or stdout text (or the dependency hint made from
\* stderr), and 'Analysis failed' only when both streams are empty.
C11_MessageFromProcessOutput ==
  \A r \in ReqIds :
    AnalysisExitedNonZero(r) =>
      LET out == reqs[r].promise.stdout
          err == reqs[r].promise.stderr
          j == JSONparse(out)
      IN  /\ Resp(r).status = 500
          /\ IF Truthy(out) /\ j.ok /\ j.type = "object"
               THEN IF HasTruthyError(j)
                      THEN Resp(r).body.error \in {j.obj.error, MsgDeps}
                      ELSE Resp(r).body.error \in {out, err, MsgAnalysisFailed, MsgDeps}
             ELSE IF Truthy(out) \/ Truthy(err)
               THEN Resp(r).body.error \in ({out, err} \ {<<>>}) \cup {MsgDeps}
             ELSE Resp(r).body.error = MsgAnalysisFailed

\* an analyze request answered with the success status
AnalyzeSucceeded(r) ==
  /\ reqs[r].route = "analyze"
  /\ Answered(r)
  /\ Resp(r).status = 200

\* C12: the success response of an analyze request is
\* {success: true, data, filename}, data being exactly the value parsed from
\* the stdout of the analysis process and filename the one of the request.
C12_SuccessIsParsedOutputAndFilename ==
  \A r \in ReqIds :
    AnalyzeSucceeded(r) =>
      /\ reqs[r].promise.state = "resolved"
      /\ JSONparse(reqs[r].promise.stdout).ok
      /\ DOMAIN Resp(r).body = {"success", "data", "filename"}
      /\ Resp(r).body.success = TRUE
      /\ Resp(r).body.data = JSONparse(reqs[r].promise.stdout).obj
      /\ Resp(r).body.filename = reqs[r].input.filename

C12_Witness ==
  \E r \in ReqIds :
    /\ AnalyzeSucceeded(r)
    /\ reqs[r].promise.stdout = OutJsonResult
    /\ Resp(r).body.filename = SplitFileName(NameSpace)

\* C13: a request whose handler is entered while PYTHON_CMD is null, the
\* startup discovery finished or not, is answered in that step without a spawn: a health
\* check with python_available false, an upload with a stored file and an
\* analyze request with a filename with 500 and the same unavailability text.
C13_NoRuntimeNoSpawn ==
  [][\A r \in ReqIds :
       (Enters(r) /\ PYTHON_CMD = Null) =>
         /\ reqs'[r].route = "health" =>
              /\ reqs'[r].pc = "done"
              /\ Len(reqs'[r].responses) = 1
              /\ reqs'[r].responses[1].body.python_available = FALSE
              /\ reqs'[r].spawned = 0
              /\ reqs'[r].proc = "none"
         /\ \/ StoredUpload(reqs'[r])
            \/ /\ reqs'[r].route = "analyze"
               /\ reqs'[r].input.given
               /\ Truthy(reqs'[r].input.filename)
            => /\ reqs'[r].pc = "done"
               /\ Len(reqs'[r].responses) = 1
               /\ reqs'[r].responses[1].status = 500
               /\ reqs'[r].responses[1].body.error = MsgNoPython
               /\ reqs'[r].spawned = 0
               /\ reqs'[r].proc = "none"]_vars

C13_Witness ==
  \E r \in ReqIds :
    /\ PYTHON_CMD = Null
    /\ pyPromise = "pending"
    /\ answers[commands[1]] = "ok"
    /\ reqs[r].route = "health"
    /\ Answered(r)
    /\ Resp(r).body.python_available = FALSE
    /\ reqs[r].spawned = 0

\* a download request whose data carries an empty summary object
EmptySummaryDownload(r) ==
  /\ reqs[r].route \in {"report", "csv"}
  /\ Answered(r)
  /\ reqs[r].input.hasData
  /\ "summary" \in DOMAIN reqs[r].input.data
  /\ DOMAIN reqs[r].input.data.summary = {}

\* the same request with zeros and empty lists in the summary
WithZeroSummary(rec) == [rec EXCEPT !.responses = <<>>, !.pc = "received",
                                    !.input.data.summary = ZeroSummary]

\* C14: download-report and download-csv, given data whose summary is an
\* empty object, answer with the attachment they produce for a summary of
\* zeros and empty lists, and raise no exception.
C14_EmptySummaryDefaults ==
  \A r \in ReqIds :
    EmptySummaryDownload(r) =>
      /\ Resp(r).status = 200
      /\ "content" \in DOMAIN Resp(r).body
      /\ Resp(r) = IF reqs[r].route = "report"
                     THEN DownloadReport(WithZeroSummary(reqs[r])).responses[1]
                     ELSE DownloadCsv(WithZeroSummary(reqs[r])).responses[1]

\* a request the server answered for a fault of the client's input: no file
\* part, a file of the wrong type, no filename, a filename of no instructor
\* file, or wrong credentials
ClientInputFailure(r) ==
  /\ Answered(r)
  /\ \/ reqs[r].route = "upload" /\ ~reqs[r].input.present
     \/ WrongTypeUpload(reqs[r])
     \/ /\ reqs[r].route = "analyze"
        /\ ~reqs[r].input.given \/ ~Truthy(reqs[r].input.filename)
     \/ /\ reqs[r].route = "analyze"
        /\ reqs[r].spawned = 0
        /\ reqs[r].input.given
        /\ Truthy(reqs[r].input.filename)
        /\ reqs[r].input.filename \notin instructorData
     \/ /\ reqs[r].route = "login"
        /\ \/ reqs[r].input.username /= ADMIN_CREDENTIALS.username
           \/ reqs[r].input.password /= ADMIN_CREDENTIALS.password

\* C15: every client-input failure is answered 400, 401 or 404 with a JSON
\* body that has success = false and an error field.
C15_ClientFailureEnvelope ==
  \A r \in ReqIds :
    ClientInputFailure(r) =>
      /\ Resp(r).status \in {400, 401, 404}
      /\ "success" \in DOMAIN Resp(r).body
      /\ Resp(r).body.success = FALSE
      /\ "error" \in DOMAIN Resp(r).body

\* the request in rec passes the precondition checks of its handler in the
\* current state of the server
PassesChecks(rec) ==
  /\ PYTHON_CMD /= Null
  /\ \/ StoredUpload(rec) /\ ExtractScript \in scripts
     \/ /\ rec.route = "analyze"
        /\ rec.input.given
        /\ Truthy(rec.input.filename)
        /\ rec.input.filename \in instructorData
        /\ AnalyzeScript \in scripts

\* C16: an upload or analyze call that passes its precondition checks
\* spawns exactly one process; no call spawns more than one, no response is
\* sent while the process runs, and the response of a call that spawned is
\* sent only once the process has closed or failed to start.
C16_OneProcessThenResponse ==
  [][\A r \in ReqIds :
       /\ (Enters(r) /\ PassesChecks(reqs'[r])) =>
            /\ reqs'[r].spawned = 1
            /\ reqs'[r].proc = "running"
            /\ reqs'[r].responses = <<>>
       /\ reqs'[r].route \in {"upload", "analyze"} =>
            /\ reqs'[r].spawned <= 1
            /\ reqs'[r].proc \in {"running", "exited"} =>
                 reqs'[r].spawned = 1 /\ reqs'[r].responses = <<>>
            /\ (reqs'[r].spawned = 1 /\ reqs'[r].responses /= <<>>) =>
                 /\ reqs'[r].proc \in {"errored", "closed"}
                 /\ reqs'[r].promise.state /= "pending"]_vars

C16_Witness ==
  \E r \in ReqIds :
    /\ reqs[r].route = "analyze"
    /\ PassesChecks(reqs[r])
    /\ reqs[r].spawned = 1
    /\ reqs[r].proc = "closed"
    /\ Answered(r)
    /\ Resp(r).status = 200

RaceIds == 1..MaxUploads

\* the file names an upload response lists
ListedFiles(resp) ==
  {resp.body.instructors[i].filename : i \in 1..Len(resp.body.instructors)}

\* C17: overlapping uploads are not coordinated on the instructor-data
\* directory: the success response of an upload lists every feedback file
\* the shared directory holds when the handler resumes, whichever splitter
\* wrote it; the witness is the interleaving in which the response of one
\* upload lists a file written by the splitter of the other upload.
C17_ListingReadsSharedDirectory ==
  [][\A r \in RaceIds :
       /\ reqs[r].pc = "awaiting"
       /\ reqs'[r].pc = "done"
       /\ reqs'[r].responses[1].status = 200
       => ListedFiles(reqs'[r].responses[1]) = {f \in instructorData : IsFeedbackFile(f)}]_vars

C17_Witness ==
  \E r, q \in RaceIds :
    /\ r /= q
    /\ UploadSucceeded(r)
    /\ reqs[q].route = "upload"
    /\ reqs[q].pc = "awaiting"
    /\ reqs[q].proc = "exited"
    /\ reqs[q].exit.code = 0
    /\ \E f \in ListedFiles(Resp(r)) :
         /\ f \in SplitterFiles(reqs[q].input.csv)
         /\ f \notin SplitterFiles(reqs[r].input.csv)

\* the feedback files of a directory content
FeedbackFiles(dir) == {f \in dir : IsFeedbackFile(f)}

\* C18: no step of a handler removes a file from the instructor-data
\* directory; every upload success response lists all feedback files the
\* directory holds, so the files of earlier responses are listed again; and
\* an analyze request naming a file of the directory is never answered 404.
C18_InstructorFilesPersist ==
  [][/\ instructorData \subseteq instructorData'
     /\ \A r \in ReqIds :
          /\ (/\ reqs[r].pc = "awaiting"
              /\ reqs[r].route = "upload"
              /\ reqs'[r].pc = "done"
              /\ reqs'[r].responses[1].status = 200)
             => /\ ListedFiles(reqs'[r].responses[1]) = FeedbackFiles(instructorData')
                /\ FeedbackFiles(instructorData) \subseteq ListedFiles(reqs'[r].responses[1])
          /\ (/\ Arrives(r)
              /\ reqs'[r].route = "analyze"
              /\ reqs'[r].input.given
              /\ reqs'[r].input.filename \in instructorData)
             => /\ reqs'[r].input.filename \in instructorData'
                /\ \A i \in 1..Len(reqs'[r].responses) :
                     reqs'[r].responses[i].status /= 404]_vars

C18_Witness ==
  \E r \in ReqIds :
    /\ UploadSucceeded(r)
    /\ reqs[r].promise.state = "resolved"
    /\ \E f \in ListedFiles(Resp(r)) : f \notin SplitterFiles(reqs[r].input.csv)
    /\ ListedFiles(Resp(r)) = FeedbackFiles(instructorData)

\* C19: the promise of runPythonScript settles once per call: 'close' with
\* code 0 resolves it with the whole stdout, 'close' with another code
\* rejects it with {code, stderr, stdout}, 'error' rejects it with {error};
\* a 'close' delivered after 'error' leaves the {error} rejection in place.
C19_SettlesExactlyOnce ==
  [][\A r \in ReqIds :
       LET now == reqs[r]
           nxt == reqs'[r]
       IN  /\ (~Arrives(r) /\ now.promise.state /= "pending") => nxt.promise = now.promise
           /\ (now.route \in {"upload", "analyze"} /\ now.proc = "exited" /\ nxt.proc = "closed") =>
                nxt.promise =
                  IF now.exit.code = 0
                    THEN [state |-> "resolved", code |-> 0, stdout |-> now.exit.stdout,
                          stderr |-> <<>>, error |-> <<>>]
                    ELSE [state |-> "rejectedExit", code |-> now.exit.code,
                          stdout |-> now.exit.stdout, stderr |-> now.exit.stderr,
                          error |-> <<>>]
           /\ (now.route \in {"upload", "analyze"} /\ now.proc = "running" /\ nxt.proc = "errored") =>
                nxt.promise = [state |-> "rejectedError", code |-> 0, stdout |-> <<>>,
                               stderr |-> <<>>, error |-> MsgEnoent(PYTHON_CMD)]
           /\ (now.route \in {"upload", "analyze"} /\ now.proc = "errored" /\ nxt.proc = "closed") =>
                /\ nxt.promise.state = "rejectedError"
                /\ nxt.promise.error = MsgEnoent(PYTHON_CMD)
                /\ nxt.responses = now.responses]_vars

C19_Witness ==
  \E r \in ReqIds :
    /\ reqs[r].route = "analyze"
    /\ reqs[r].spawned = 1
    /\ reqs[r].proc = "closed"
    /\ reqs[r].promise.state = "rejectedError"
    /\ Len(reqs[r].responses) = 1

\* the first candidate, in list order, that answers the version probe
FirstWorking ==
  IF \E i \in DOMAIN commands : answers[commands[i]] = "ok"
    THEN commands[CHOOSE i \in DOMAIN commands :
                    /\ answers[commands[i]] = "ok"
                    /\ \A j \in 1..(i - 1) : answers[commands[j]] /= "ok"]
    ELSE Null

\* C20: the discovery probes the candidates in list order, at most one
\* probe per candidate; PYTHON_CMD is null until the discovery resolves and
\* is then the first candidate in list order whose probe exits 0, null only
\* if no candidate answers, also when a missing candidate delivers both
\* 'error' and 'close'.
C20_FirstWorkingCandidate ==
  /\ Len(probes) <= Len(commands)
  /\ \A i \in 1..Len(probes) : probes[i].cmd = commands[i]
  /\ pyPromise = "pending" => PYTHON_CMD = Null
  /\ pyPromise = "resolved" => PYTHON_CMD = FirstWorking

\* C21: the instructor list of an upload success response is in ascending
\* order of filename (the order of Array.prototype.sort), whatever order the
\* directory listing returned the files in; this is stated of the handler
\* that serves the route.
C21_ListSortedByFilename ==
  \A r \in ReqIds :
    UploadSucceeded(r) =>
      LET ins == Resp(r).body.instructors
      IN  \A i \in 1..(Len(ins) - 1) : LexLess(ins[i].filename, ins[i + 1].filename)

\* ------------------------------------------------------------------------
\* Claims about the client page
\* ------------------------------------------------------------------------

\* the fetches of one kind under way
FetchesOf(c, kind) == {i \in 1..Len(c.fetches) : c.fetches[i].kind = kind}

\* the step ends the i-th fetch
FetchEnds(i) == client'.fetches = Without(client.fetches, i)

\* C22: the page moves only from login to upload (a login answered with
\* success), from upload to dashboard (an upload answered with success), from
\* dashboard to upload (new upload, the analysis data dropped) and from upload
\* or dashboard to login (logout, user and analysis data dropped), never from
\* login straight to dashboard; a step that toggles the theme changes neither
\* the page nor the user nor the analysis data.
C22_PageTransitions ==
  [][LET from == client.currentPage
         to == client'.currentPage
     IN  /\ from /= to =>
              \/ /\ from = "login" /\ to = "upload"
                 /\ \E i \in FetchesOf(client, "login") :
                      /\ LoginAnswer(client.fetches[i].input).success
                      /\ FetchEnds(i)
              \/ /\ from = "upload" /\ to = "dashboard"
                 /\ \E i \in FetchesOf(client, "upload") : FetchEnds(i)
              \/ /\ from = "dashboard" /\ to = "upload"
                 /\ client'.analysisData = JsNull /\ client'.user = client.user
              \/ /\ from \in {"upload", "dashboard"} /\ to = "login"
                 /\ client'.analysisData = JsNull /\ client'.user = JsNull
         /\ client'.isDark /= client.isDark =>
              /\ to = from
              /\ client'.user = client.user
              /\ client'.analysisData = client.analysisData]_vars

\* the page went from login over upload to the dashboard, left the dashboard
\* again while a report was being fetched, and the theme is toggled
C22_Witness ==
  /\ client.currentPage = "upload"
  /\ FetchesOf(client, "report") /= {}
  /\ client.isDark

\* C23: whenever the page is 'dashboard', which it becomes when an upload is
\* answered with success, the analysis data is an object and the dashboard is
\* rendered: no state has currentPage 'dashboard' with empty analysis data and
\* no screen rendered.
C23_DashboardHasData ==
  client.currentPage = "dashboard" =>
    /\ JsTruthy(client.analysisData)
    /\ Rendered(client) = "DashboardPage"

\* C24: every request receives exactly one response: no request ever has a
\* second response, and a request whose handling is over, be it answered or
\* ended with the server process by an uncaught exception, has one response.
C24_ExactlyOneResponse ==
  \A r \in ReqIds :
    /\ Len(reqs[r].responses) <= 1
    /\ reqs[r].pc \in {"done", "crashed"} => Len(reqs[r].responses) = 1

\* C25: the page is 'upload' or 'dashboard' only while a user is set; a step
\* that logs out (the user becomes null) also sets the analysis data to null
\* and the page to 'login'; and the login and upload pages never hold analysis
\* data, so none of an earlier session is there after a later login.
C25_SessionIsolation ==
  /\ [](/\ client.currentPage \in {"upload", "dashboard"} => JsTruthy(client.user)
        /\ client.currentPage \in {"login", "upload"} => client.analysisData = JsNull)
  /\ [][client.user /= JsNull /\ client'.user = JsNull =>
          /\ client'.analysisData = JsNull
          /\ client'.currentPage = "login"]_vars

\* the user logged out of a dashboard that showed analysis data (its report
\* is still being fetched) and is logging in again
C25_Witness ==
  /\ client.currentPage = "login"
  /\ client.user = JsNull
  /\ client.analysisData = JsNull
  /\ \E i \in FetchesOf(client, "report") : JsTruthy(client.fetches[i].input)
  /\ FetchesOf(client, "login") /= {}

\* C26: at most one upload request is under way at a time: while the upload
\* page is shown, uploading is true exactly while an upload request is under
\* way (set when it is sent, reset when it is answered with success, with an
\* error, or fails to connect), off the upload page none is under way, and a
\* request is sent only while uploading is false and a file is chosen.
C26_OneUploadInFlight ==
  /\ [](/\ Cardinality(FetchesOf(client, "upload")) <= 1
        /\ Rendered(client) = "UploadPage" =>
             (client.uploadPage.uploading <=> FetchesOf(client, "upload") /= {})
        /\ Rendered(client) /= "UploadPage" => FetchesOf(client, "upload") = {})
  /\ [][Cardinality(FetchesOf(client', "upload")) > Cardinality(FetchesOf(client, "upload")) =>
          /\ ~client.uploadPage.uploading
          /\ client.uploadPage.file /= "null"
          /\ client'.uploadPage.uploading]_vars

\* an upload was sent from the upload page and failed to connect: the request
\* is over, uploading is false again and the chosen file is still there
C26_Witness ==
  /\ Rendered(client) = "UploadPage"
  /\ client.uploadPage.file /= "null"
  /\ client.uploadPage.error = MsgCannotConnectUpload
  /\ ~client.uploadPage.uploading
  /\ FetchesOf(client, "upload") = {}

====
